---- MODULE Spec2Model ----
(***************************************************************************)
(* Model of src/utils/mps_compat.py: four wrappers around the tensor       *)
(* library's matmul / einsum / bmm / mm that reroute a computation through *)
(* the CPU when the first operand lives on an MPS device and some operand  *)
(* has one of the complex dtypes the capability check lists.               *)
(*                                                                         *)
(* A tensor is a record [device, dtype, val].  The library's operators are *)
(* external; they are modelled by their contract: they raise RuntimeError  *)
(* when the operands are on different devices or have different dtypes     *)
(* (and einsum when the equation's term count differs from the operand     *)
(* count), they may raise on complex MPS operands depending on the build,  *)
(* and otherwise return, on the operands' device, a value that is an       *)
(* uninterpreted function of the operator, the equation and the operand    *)
(* values in order.                                                        *)
(***************************************************************************)
EXTENDS Integers, Sequences, FiniteSets

VARIABLES pc, op, equation, operands, device, needs, trace, result, error,
          prevKey, prevPath

vars == <<pc, op, equation, operands, device, needs, trace, result, error,
          prevKey, prevPath>>

\* ------------------------------------------------------------------ bounds
MaxVal == 2
MaxOperands == 2

\* ----------------------------------------------------------- tensor library
CpuDevice == [type |-> "cpu", index |-> -1]
MpsDevice == [type |-> "mps", index |-> 0]
CudaDevice == [type |-> "cuda", index |-> 0]
NoDevice == [type |-> "none", index |-> -1]
Devices == {CpuDevice, MpsDevice, CudaDevice}

Dtypes == {"float32", "complex32", "complex64", "complex128"}
\* torch.is_complex: every complex dtype of the library
ComplexDtypes == {"complex32", "complex64", "complex128"}
\* the dtypes the capability check lists
CheckedDtypes == {"complex64", "complex128"}

Values == 1..MaxVal
HistValues == {1}
Equations == {"ij,jk->ik", "ii->i"}

TensorsOver(Vals) == [device : Devices, dtype : Dtypes, val : Vals]
Tensors == TensorsOver(Values)
SeqsUpTo(S, n) == UNION {[1..k -> S] : k \in 0..n}

NoTensor == [device |-> NoDevice, dtype |-> "none", val |-> <<>>]
NoError == [type |-> "none", msg |-> ""]
NoOperandsError == [type |-> "ValueError", msg |-> "No operands provided to mps_einsum"]
LibraryError == [type |-> "RuntimeError", msg |-> "raised by the tensor library"]

Ev(e, args) == [ev |-> e, args |-> args]

\* Tensor.cpu(): same dtype and value, on the CPU
cpu(t) == [t EXCEPT !.device = CpuDevice]
\* a move that leaves the tensor where it is
to_stays(t, d) == t
\* Tensor.to(device): same dtype and value, on the given device
to(t, d) == [t EXCEPT !.device = d]

\* number of comma-separated terms on an equation's left-hand side
EquationArity(eq) == IF eq = "ij,jk->ik" THEN 2 ELSE 1

\* the value a native operator computes: a function of the operator, the
\* equation and the operand values in operand order
NativeValue(nop, eq, vals) == <<nop, eq, vals>>

ValsOf(args) == [i \in 1..Len(args) |-> args[i].val]
DtypesOf(args) == [i \in 1..Len(args) |-> args[i].dtype]

ComplexOnMps(args) ==
    \E i \in 1..Len(args) :
        args[i].device.type = "mps" /\ args[i].dtype \in ComplexDtypes

NativeRaises(nop, eq, args, mpsComplexOk) ==
    \/ \E i, j \in 1..Len(args) : args[i].device # args[j].device
    \/ \E i, j \in 1..Len(args) : args[i].dtype # args[j].dtype
    \/ nop = "einsum" /\ EquationArity(eq) # Len(args)
    \/ ~mpsComplexOk /\ ComplexOnMps(args)

NativeResult(nop, eq, args) ==
    [device |-> args[1].device, dtype |-> args[1].dtype,
     val |-> NativeValue(nop, eq, ValsOf(args))]

\* ------------------------------------------------------------ the module
\* the check without its dtype test
needs_any_dtype(d, tensors) == d.type = "mps" /\ Len(tensors) > 0
\* the check without its device test
needs_any_device(d, tensors) ==
    \E i \in 1..Len(tensors) : tensors[i].dtype \in CheckedDtypes

_needs_cpu_fallback(d, tensors) ==
    IF d.type # "mps"
    THEN FALSE
    ELSE \E i \in 1..Len(tensors) : tensors[i].dtype \in CheckedDtypes

Raised(d, n, tr, err) ==
    [pc |-> "raised", device |-> d, needs |-> n, trace |-> tr,
     result |-> NoTensor, error |-> err]
Returned(d, n, tr, t) ==
    [pc |-> "returned", device |-> d, needs |-> n, trace |-> tr,
     result |-> t, error |-> NoError]

mps_matmul(a, b, mpsComplexOk) ==
    IF _needs_cpu_fallback(a.device, <<a, b>>)
    THEN LET dev == a.device
             args == <<cpu(a), cpu(b)>>
             tr == <<Ev("check", <<a, b>>), Ev("cpu", <<a>>), Ev("cpu", <<b>>),
                     Ev("native", args)>>
         IN  IF NativeRaises("matmul", "", args, mpsComplexOk)
             THEN Raised(dev, TRUE, tr, LibraryError)
             ELSE LET res == NativeResult("matmul", "", args)
                  IN  Returned(dev, TRUE, Append(tr, Ev("to", <<res>>)), to(res, dev))
    ELSE LET tr == <<Ev("check", <<a, b>>), Ev("native", <<a, b>>)>>
         IN  IF NativeRaises("matmul", "", <<a, b>>, mpsComplexOk)
             THEN Raised(NoDevice, FALSE, tr, LibraryError)
             ELSE Returned(NoDevice, FALSE, tr, NativeResult("matmul", "", <<a, b>>))

\* mps_einsum demanding two operands
mps_einsum_two(eq, ops, mpsComplexOk) ==
    IF Len(ops) < 2
    THEN Raised(NoDevice, FALSE, <<>>, NoOperandsError)
    ELSE IF NativeRaises("einsum", eq, ops, mpsComplexOk)
    THEN Raised(NoDevice, FALSE, <<Ev("check", ops), Ev("native", ops)>>, LibraryError)
    ELSE Returned(NoDevice, FALSE, <<Ev("check", ops), Ev("native", ops)>>,
                  NativeResult("einsum", eq, ops))

mps_einsum(eq, ops, mpsComplexOk) ==
    IF Len(ops) = 0
    THEN Raised(NoDevice, FALSE, <<>>, NoOperandsError)
    ELSE IF _needs_cpu_fallback(ops[1].device, ops)
    THEN LET dev == ops[1].device
             cpu_operands == [i \in 1..Len(ops) |-> cpu(ops[i])]
             tr == <<Ev("check", ops)>>
                   \o [i \in 1..Len(ops) |-> Ev("cpu", <<ops[i]>>)]
                   \o <<Ev("native", cpu_operands)>>
         IN  IF NativeRaises("einsum", eq, cpu_operands, mpsComplexOk)
             THEN Raised(dev, TRUE, tr, LibraryError)
             ELSE LET res == NativeResult("einsum", eq, cpu_operands)
                  IN  Returned(dev, TRUE, Append(tr, Ev("to", <<res>>)), to(res, dev))
    ELSE LET tr == <<Ev("check", ops), Ev("native", ops)>>
         IN  IF NativeRaises("einsum", eq, ops, mpsComplexOk)
             THEN Raised(NoDevice, FALSE, tr, LibraryError)
             ELSE Returned(NoDevice, FALSE, tr, NativeResult("einsum", eq, ops))

\* mps_bmm passing its operands to the CPU product in the wrong order
mps_bmm_swapped(a, b, mpsComplexOk) ==
    IF _needs_cpu_fallback(a.device, <<a, b>>)
    THEN LET dev == a.device
             args == <<cpu(b), cpu(a)>>
             tr == <<Ev("check", <<a, b>>), Ev("cpu", <<a>>), Ev("cpu", <<b>>),
                     Ev("native", args)>>
         IN  IF NativeRaises("bmm", "", args, mpsComplexOk)
             THEN Raised(dev, TRUE, tr, LibraryError)
             ELSE LET res == NativeResult("bmm", "", args)
                  IN  Returned(dev, TRUE, Append(tr, Ev("to", <<res>>)), to(res, dev))
    ELSE LET tr == <<Ev("check", <<a, b>>), Ev("native", <<a, b>>)>>
         IN  IF NativeRaises("bmm", "", <<a, b>>, mpsComplexOk)
             THEN Raised(NoDevice, FALSE, tr, LibraryError)
             ELSE Returned(NoDevice, FALSE, tr, NativeResult("bmm", "", <<a, b>>))

mps_bmm(a, b, mpsComplexOk) ==
    IF _needs_cpu_fallback(a.device, <<a, b>>)
    THEN LET dev == a.device
             args == <<cpu(a), cpu(b)>>
             tr == <<Ev("check", <<a, b>>), Ev("cpu", <<a>>), Ev("cpu", <<b>>),
                     Ev("native", args)>>
         IN  IF NativeRaises("bmm", "", args, mpsComplexOk)
             THEN Raised(dev, TRUE, tr, LibraryError)
             ELSE LET res == NativeResult("bmm", "", args)
                  IN  Returned(dev, TRUE, Append(tr, Ev("to", <<res>>)), to(res, dev))
    ELSE LET tr == <<Ev("check", <<a, b>>), Ev("native", <<a, b>>)>>
         IN  IF NativeRaises("bmm", "", <<a, b>>, mpsComplexOk)
             THEN Raised(NoDevice, FALSE, tr, LibraryError)
             ELSE Returned(NoDevice, FALSE, tr, NativeResult("bmm", "", <<a, b>>))

\* mps_mm deciding on the second operand's device
mps_mm_second(a, b, mpsComplexOk) ==
    IF _needs_cpu_fallback(b.device, <<a, b>>)
    THEN LET dev == a.device
             args == <<cpu(a), cpu(b)>>
             tr == <<Ev("check", <<a, b>>), Ev("cpu", <<a>>), Ev("cpu", <<b>>),
                     Ev("native", args)>>
         IN  IF NativeRaises("mm", "", args, mpsComplexOk)
             THEN Raised(dev, TRUE, tr, LibraryError)
             ELSE LET res == NativeResult("mm", "", args)
                  IN  Returned(dev, TRUE, Append(tr, Ev("to", <<res>>)), to(res, dev))
    ELSE LET tr == <<Ev("check", <<a, b>>), Ev("native", <<a, b>>)>>
         IN  IF NativeRaises("mm", "", <<a, b>>, mpsComplexOk)
             THEN Raised(NoDevice, FALSE, tr, LibraryError)
             ELSE Returned(NoDevice, FALSE, tr, NativeResult("mm", "", <<a, b>>))

mps_mm(a, b, mpsComplexOk) ==
    IF _needs_cpu_fallback(a.device, <<a, b>>)
    THEN LET dev == a.device
             args == <<cpu(a), cpu(b)>>
             tr == <<Ev("check", <<a, b>>), Ev("cpu", <<a>>), Ev("cpu", <<b>>),
                     Ev("native", args)>>
         IN  IF NativeRaises("mm", "", args, mpsComplexOk)
             THEN Raised(dev, TRUE, tr, LibraryError)
             ELSE LET res == NativeResult("mm", "", args)
                  IN  Returned(dev, TRUE, Append(tr, Ev("to", <<res>>)), to(res, dev))
    ELSE LET tr == <<Ev("check", <<a, b>>), Ev("native", <<a, b>>)>>
         IN  IF NativeRaises("mm", "", <<a, b>>, mpsComplexOk)
             THEN Raised(NoDevice, FALSE, tr, LibraryError)
             ELSE Returned(NoDevice, FALSE, tr, NativeResult("mm", "", <<a, b>>))

\* ------------------------------------------------------------ state machine
NoKey == <<"none", <<>>>>
StartKey == <<"start", <<>>>>

Init ==
    /\ pc = "idle"
    /\ op = "none"
    /\ equation = ""
    /\ operands = <<>>
    /\ device = NoDevice
    /\ needs = FALSE
    /\ trace = <<>>
    /\ result = NoTensor
    /\ error = NoError
    /\ prevKey = StartKey
    /\ prevPath = "none"

\* a call of wrapper w on (eq, ops) that ran to completion with outcome out
Enter(w, eq, ops, out) ==
    /\ op' = w
    /\ equation' = eq
    /\ operands' = ops
    /\ pc' = out.pc
    /\ device' = out.device
    /\ needs' = out.needs
    /\ trace' = out.trace
    /\ result' = out.result
    /\ error' = out.error
    /\ UNCHANGED <<prevKey, prevPath>>

CallMatmul(Vals) ==
    /\ pc = "idle"
    /\ \E a, b \in TensorsOver(Vals), ok \in BOOLEAN :
          Enter("mps_matmul", "", <<a, b>>, mps_matmul(a, b, ok))

CallEinsum(Vals) ==
    /\ pc = "idle"
    /\ \E eq \in Equations, ops \in SeqsUpTo(TensorsOver(Vals), MaxOperands),
          ok \in BOOLEAN :
          Enter("mps_einsum", eq, ops, mps_einsum(eq, ops, ok))

CallBmm(Vals) ==
    /\ pc = "idle"
    /\ \E a, b \in TensorsOver(Vals), ok \in BOOLEAN :
          Enter("mps_bmm", "", <<a, b>>, mps_bmm(a, b, ok))

CallMm(Vals) ==
    /\ pc = "idle"
    /\ \E a, b \in TensorsOver(Vals), ok \in BOOLEAN :
          Enter("mps_mm", "", <<a, b>>, mps_mm(a, b, ok))

\* what the routing decision may depend on, and the route taken
Key == IF Len(operands) = 0 THEN NoKey
       ELSE <<operands[1].device.type, DtypesOf(operands)>>
EventCount(e) == Cardinality({i \in 1..Len(trace) : trace[i].ev = e})
Path == IF EventCount("check") = 0 THEN "invalid"
        ELSE IF EventCount("cpu") > 0 \/ EventCount("to") > 0 THEN "fallback"
        ELSE "native"

\* the call is over: its frame is gone, the caller goes on
Clear ==
    /\ pc' = "idle"
    /\ op' = "none"
    /\ equation' = ""
    /\ operands' = <<>>
    /\ device' = NoDevice
    /\ needs' = FALSE
    /\ trace' = <<>>
    /\ result' = NoTensor
    /\ error' = NoError

MpsMatmul == CallMatmul(Values)
MpsEinsum == CallEinsum(Values)
MpsBmm == CallBmm(Values)
MpsMm == CallMm(Values)
Resume ==
    /\ pc # "idle"
    /\ Clear
    /\ UNCHANGED <<prevKey, prevPath>>

Next == MpsMatmul \/ MpsEinsum \/ MpsBmm \/ MpsMm \/ Resume

Spec == Init /\ [][Next]_vars

\* the same calls, with the route of the previous call remembered
HistMatmul == CallMatmul(HistValues)
HistEinsum == CallEinsum(HistValues)
HistBmm == CallBmm(HistValues)
HistMm == CallMm(HistValues)
ResumeRecording ==
    /\ pc # "idle"
    /\ Clear
    /\ prevKey' = Key
    /\ prevPath' = Path

NextHist == HistMatmul \/ HistEinsum \/ HistBmm \/ HistMm \/ ResumeRecording

SpecHist == Init /\ [][NextHist]_vars

\* the capability check called on its own
NeedsCpuFallback ==
    /\ pc = "idle"
    /\ \E d \in Devices, ts \in SeqsUpTo(Tensors, MaxOperands) :
          /\ op' = "_needs_cpu_fallback"
          /\ equation' = ""
          /\ operands' = ts
          /\ device' = d
          /\ needs' = _needs_cpu_fallback(d, ts)
          /\ pc' = "returned"
          /\ trace' = <<>>
          /\ result' = NoTensor
          /\ error' = NoError
          /\ UNCHANGED <<prevKey, prevPath>>

NextNeeds == NeedsCpuFallback \/ Resume

SpecNeeds == Init /\ [][NextNeeds]_vars

\* ------------------------------------------------------------ properties
Wrappers == {"mps_matmul", "mps_einsum", "mps_bmm", "mps_mm"}
InWrapper == pc # "idle" /\ op \in Wrappers
NativeOf(w) == CASE w = "mps_matmul" -> "matmul"
                 [] w = "mps_einsum" -> "einsum"
                 [] w = "mps_bmm" -> "bmm"
                 [] w = "mps_mm" -> "mm"
                 [] OTHER -> "none"
NativeCalls == {i \in 1..Len(trace) : trace[i].ev = "native"}
AnyComplex == \E i \in 1..Len(operands) : operands[i].dtype \in ComplexDtypes
AllOnMps == \A i \in 1..Len(operands) : operands[i].device.type = "mps"
NativeOnceOnOriginals ==
    /\ EventCount("cpu") = 0
    /\ Cardinality(NativeCalls) = 1
    /\ \A i \in NativeCalls : trace[i].args = operands

\* C1: whenever a wrapper returns a result, the result is on the device the
\* first operand had at call time, on the fallback path and on the native path.
C1_ResultOnOriginalDevice ==
    (InWrapper /\ pc = "returned") => result.device = operands[1].device
C1_Witness ==
    /\ InWrapper /\ pc = "returned" /\ Path = "fallback"
    /\ operands[2].device = CpuDevice /\ result.device = MpsDevice

\* C2: the capability check returns True exactly when the device type is
\* 'mps' and at least one of the tensors has a complex dtype.
C2_NeedsIffMpsAndComplex ==
    (pc = "returned" /\ op = "_needs_cpu_fallback") =>
        (needs <=> (device.type = "mps" /\ AnyComplex))

\* C3: mps_einsum with zero operands raises the validation ValueError for
\* every equation before the capability check, any transfer and any einsum
\* call; with at least one operand that error is never raised.
C3_EinsumValidation ==
    (pc # "idle" /\ op = "mps_einsum") =>
        /\ Len(operands) = 0 =>
              pc = "raised" /\ error = NoOperandsError /\ trace = <<>>
        /\ Len(operands) > 0 => error # NoOperandsError
C3_Witness ==
    /\ op = "mps_einsum" /\ Len(operands) = 0 /\ equation = "ii->i"
    /\ pc = "raised" /\ error = NoOperandsError

\* C4: a wrapper call whose operands are all on an MPS device and none of
\* which is complex makes no transfer to the CPU and invokes the native
\* operator exactly once, on the original operands.
C4_RealOnMpsStaysNative ==
    (InWrapper /\ Len(operands) > 0 /\ AllOnMps /\ ~AnyComplex) =>
        NativeOnceOnOriginals
C4_Witness ==
    /\ InWrapper /\ Len(operands) = 2 /\ AllOnMps /\ ~AnyComplex
    /\ pc = "returned" /\ result.device = MpsDevice

\* C5: whenever a wrapper returns, the returned value is the value its native
\* operator computes from the same operand values in the same order (with the
\* same equation for einsum), on the fallback path and on the native path.
C5_DropInValue ==
    (InWrapper /\ pc = "returned") =>
        result.val = NativeValue(NativeOf(op), equation, ValsOf(operands))
C5_Witness ==
    /\ op = "mps_bmm" /\ pc = "returned" /\ Path = "fallback"
    /\ operands[1].val # operands[2].val

\* C6: in every wrapper call the native operator is never applied to an
\* operand that has a complex dtype and is on an MPS device.
C6_NoNativeComplexOnMps ==
    InWrapper => \A i \in NativeCalls : ~ComplexOnMps(trace[i].args)

\* C7: when the first operand's device type is not 'mps', the wrapper calls
\* the native operator directly whatever the dtypes: no operand is copied to
\* the CPU and the result is not moved afterwards.
C7_NonMpsIsNative ==
    (InWrapper /\ Len(operands) > 0 /\ operands[1].device.type # "mps") =>
        /\ NativeOnceOnOriginals
        /\ EventCount("to") = 0
        /\ pc = "returned" => result.device = operands[1].device
C7_Witness ==
    /\ InWrapper /\ pc = "returned" /\ operands[1].device.type = "cuda"
    /\ AnyComplex /\ Path = "native"

\* C8: the route is a function of the first operand's device type and the
\* operands' dtypes only: a call with the same device type and dtypes as the
\* call before it, by whichever wrapper, takes the same route.
C8_SameKeySamePath ==
    (InWrapper /\ prevKey = Key) => prevPath = Path
C8_Witness ==
    /\ InWrapper /\ prevKey = Key /\ Len(operands) = 2
    /\ operands[1].device = MpsDevice /\ operands[2].device = CpuDevice
    /\ Path = "fallback"
====
